---------------------------- MODULE Spec2Model ----------------------------
(***************************************************************************)
(* Model of src/src/yolo_v2.rs: the YOLOv2 detector's predict pipeline     *)
(* (set_image -> run -> decode -> suppress -> inverse mapping) and its     *)
(* three helper functions.                                                 *)
(*                                                                         *)
(* Numbers.  f32 values are rendered in fixed point, in hundredths         *)
(* (0.5 is 50, 0.45 is 45); divisions truncate.  The input tensor, whose   *)
(* exact contents matter, is kept exactly, in units of 1/510 (a pixel p    *)
(* is written as p/255 = 2p/510, the padding 0.5 is 255/510).  Ratios that *)
(* are only compared or divided by (the letterbox scale, an IoU) are kept  *)
(* as exact fractions <<numerator, denominator>>.  A score may also be the *)
(* f32 NaN.                                                                *)
(***************************************************************************)
EXTENDS Integers, Sequences, FiniteSets

VARIABLES
    fn,         \* the function under execution: "predict", or one helper called alone
    pc,         \* position inside that function
    config,     \* Config: insize, anchors, n_classes (= label_names.len())
    img,        \* the source image: height, width, pixel seed
    rimg,       \* the image returned by img.resize: height, width, pixel seed
    in_,        \* the input tensor view: shape <<c, h, w>> and data
    out,        \* the output tensor view: shape <<c, h, w>> and data
    scale,      \* the value returned by set_image, a fraction <<n, d>>
    dec_thresh, \* the threshold handed to decode
    nms_thresh, \* the threshold handed to suppress
    bbox,       \* the Vec<bb::Bb> being built, filtered and mapped
    cand,       \* history: bbox as it entered suppress
    sorted,     \* history: bbox after sort_unstable_by, before dedup_by
    kept,       \* history: the positions of sorted that dedup_by retained
    trace,      \* history: the stages predict has performed so far
    failed_at,  \* history: the engine call that failed, or "none"
    result      \* "none" while running, then "ok", "err" or "panic"

vars == <<fn, pc, config, img, rimg, in_, out, scale, dec_thresh, nms_thresh,
          bbox, cand, sorted, kept, trace, failed_at, result>>

-----------------------------------------------------------------------------
(* Bounds of the model *)

\* longest box list handed to suppress when it is called alone
MaxLen == 3
\* largest side of the input tensor and of an image
MaxSide == 3
\* largest height and width of the output grid when decode is called alone
MaxGrid == 2

\* f32::NAN as a score; every real score of the model is >= 0
NaN == -1

Min(a, b) == IF a <= b THEN a ELSE b
Max(a, b) == IF a >= b THEN a ELSE b

RECURSIVE Flatten(_)
Flatten(ss) == IF ss = <<>> THEN <<>> ELSE Head(ss) \o Flatten(Tail(ss))

-----------------------------------------------------------------------------
(* bb::Bb and its iou (module bb is not among the sources: the geometry is  *)
(* the one section 4.3 of the specification gives)                          *)

Bb(t, l, b, r, lb, sc) ==
    [top |-> t, left |-> l, bottom |-> b, right |-> r, label |-> lb, score |-> sc]

Area(a) == (a.bottom - a.top) * (a.right - a.left)

\* intersection over union as the exact fraction <<intersection, union>>
iou(a, b) ==
    LET ih == Min(a.bottom, b.bottom) - Max(a.top, b.top)
        iw == Min(a.right, b.right) - Max(a.left, b.left)
        inter == IF ih > 0 /\ iw > 0 THEN ih * iw ELSE 0
    IN  <<inter, Area(a) + Area(b) - inter>>

\* f > t/100 for a fraction f; a zero union is an IoU of 0
Exceeds(f, t) == IF f[2] = 0 THEN 0 > t ELSE f[1] * 100 > t * f[2]

-----------------------------------------------------------------------------
(* suppress *)

\* f32::partial_cmp
partial_cmp(a, b) ==
    IF a = NaN \/ b = NaN THEN "None"
    ELSE IF a < b THEN "Less" ELSE IF a > b THEN "Greater" ELSE "Equal"

\* variant: scores compared the other way round
MutCmpAscending(a, b) ==
    IF a.label < b.label THEN "Less"
    ELSE IF a.label > b.label THEN "Greater"
    ELSE LET o == partial_cmp(a.score, b.score)
         IN  IF o = "None" THEN "Equal" ELSE o

\* the closure handed to sort_unstable_by
BbCmp(a, b) ==
    IF a.label < b.label THEN "Less"
    ELSE IF a.label > b.label THEN "Greater"
    ELSE LET o == partial_cmp(b.score, a.score)
         IN  IF o = "None" THEN "Equal" ELSE o

Perms(n) == {p \in [1..n -> 1..n] : \A i, j \in 1..n : p[i] = p[j] => i = j}

\* the closure is a total preorder on the boxes of one label unless one of
\* their scores is NaN (NaN compares Equal to 0.9 and to 0.8, which differ)
LabelHasNaN(s, lb) == \E i \in 1..Len(s) : s[i].label = lb /\ s[i].score = NaN

\* variant: the sort left out
MutNoSort(s) == {s}

(* sort_unstable_by promises a sorted order, not a stable one: equal       *)
(* elements come out in any order.  Where the closure is no total order    *)
(* the order of the elements it misjudges is unspecified; comparisons of   *)
(* boxes of different labels are always right, so labels still come out    *)
(* ascending.  Every order the sort may produce is an outcome.             *)
SortOutcomes(s) ==
    { t \in { [i \in 1..Len(s) |-> s[p[i]]] : p \in Perms(Len(s)) } :
        \A i, j \in 1..Len(t) : i < j =>
            /\ t[i].label <= t[j].label
            /\ ~LabelHasNaN(s, t[i].label) => BbCmp(t[i], t[j]) # "Greater" }

\* variant: the labels are not compared
MutSameBucketAnyLabel(a, b, thresh) == Exceeds(iou(a, b), thresh)

\* the closure handed to dedup_by: a is the later element, b the earlier one
same_bucket(a, b, thresh) == a.label = b.label /\ Exceeds(iou(a, b), thresh)

\* variant: each element is compared with its neighbour, retained or not
MutDedupAdjacent(s, thresh) ==
    { i \in 1..Len(s) : i = 1 \/ ~same_bucket(s[i], s[i - 1], thresh) }

(* Vec::dedup_by: one scan; the element read is compared with the last     *)
(* element retained so far and is dropped when they are in the same        *)
(* bucket.  The positions retained:                                        *)
RECURSIVE DedupScan(_, _, _, _, _)
DedupScan(s, thresh, read, last, acc) ==
    IF read > Len(s) THEN acc
    ELSE IF same_bucket(s[read], s[last], thresh)
         THEN DedupScan(s, thresh, read + 1, last, acc)
         ELSE DedupScan(s, thresh, read + 1, read, acc \cup {read})

dedup_by(s, thresh) ==
    IF Len(s) = 0 THEN {} ELSE DedupScan(s, thresh, 2, 1, {1})

\* the elements of s at the positions of K, in order
RECURSIVE Pick(_, _, _)
Pick(s, K, i) ==
    IF i > Len(s) THEN <<>>
    ELSE (IF i \in K THEN <<s[i]>> ELSE <<>>) \o Pick(s, K, i + 1)


\* variant: the dedup left out
MutSuppressSortOnly(st, thresh) == [kept |-> 1..Len(st), bbox |-> st]

\* suppress: the sort outcome chosen, then the dedup; the positions retained
\* and the list left in bbox
suppress(st, thresh) ==
    LET K == dedup_by(st, thresh)
    IN  [kept |-> K, bbox |-> Pick(st, K, 1)]

-----------------------------------------------------------------------------
(* decode *)

\* the raw activations a tensor of the model holds
Acts == <<-1, 0, 1, 6>>

\* f32::exp on the activations, in hundredths
exp(x) == CASE x = -1 -> 37 [] x = 0 -> 100 [] x = 1 -> 272 [] x = 6 -> 40343

\* 1. / (1. + (-x).exp()) on the activations, in hundredths
sigmoid(x) == CASE x = -1 -> 27 [] x = 0 -> 50 [] x = 1 -> 73 [] x = 6 -> 100

\* number of elements of a tensor of shape sh
Size(sh) == sh[1] * sh[2] * sh[3]

\* into_shape((anchors.len(), 4 + 1 + n_fg_class, out_h, out_w)) is Ok when the
\* element counts agree (the view is contiguous), Err otherwise
into_shape_ok(ov, n_anchors, n_fg_class) ==
    n_anchors * (4 + 1 + n_fg_class) * ov.shape[2] * ov.shape[3] = Size(ov.shape)

\* element [a, k, y, x] of the reshaped view (row major)
El(ov, n_fg_class, a, k, y, x) ==
    ov.data[((a * (4 + 1 + n_fg_class) + k) * ov.shape[2] + y) * ov.shape[3] + x]

\* score[lb] after score.map_inplace(|s| *s *= obj / sum).  In hundredths the
\* product is formed before the division, which keeps the precision f32 has.
ScaledScore(ov, n_fg_class, y, x, a, lb) ==
    LET obj == sigmoid(El(ov, n_fg_class, a, 4, y, x))
        e(c) == exp(El(ov, n_fg_class, a, 4 + 1 + c, y, x))
        RECURSIVE Sum(_)
        Sum(c) == IF c = n_fg_class THEN 0 ELSE e(c) + Sum(c + 1)
    IN  (e(lb) * obj) \div Sum(0)

\* the box pushed for (y, x, a, lb)
BoxAt(ov, anchors, n_fg_class, y, x, a, lb) ==
    LET out_h == ov.shape[2]
        out_w == ov.shape[3]
        loc(k) == El(ov, n_fg_class, a, k, y, x)
        cy == y * 100 + sigmoid(loc(0))
        cx == x * 100 + sigmoid(loc(1))
        h == (anchors[a + 1][1] * exp(loc(2))) \div 100
        w == (anchors[a + 1][2] * exp(loc(3))) \div 100
    IN  Bb((cy - h \div 2) \div out_h, (cx - w \div 2) \div out_w,
           (cy + h \div 2) \div out_h, (cx + w \div 2) \div out_w,
           lb, ScaledScore(ov, n_fg_class, y, x, a, lb))

\* variant: a score equal to the threshold is not emitted
MutClearsStrict(s, thresh) == s > thresh

\* the test of line 131
Clears(s, thresh) == s >= thresh

\* the four nested loops, outermost first; requires into_shape_ok
decode_loops(ov, anchors, n_fg_class, thresh) ==
    LET ForLb(y, x, a) ==
            Flatten([i \in 1..n_fg_class |->
                IF Clears(ScaledScore(ov, n_fg_class, y, x, a, i - 1), thresh)
                THEN <<BoxAt(ov, anchors, n_fg_class, y, x, a, i - 1)>>
                ELSE <<>>])
        ForA(y, x) == Flatten([i \in 1..Len(anchors) |-> ForLb(y, x, i - 1)])
        ForX(y) == Flatten([i \in 1..ov.shape[3] |-> ForA(y, i - 1)])
    IN  Flatten([i \in 1..ov.shape[2] |-> ForX(i - 1)])

\* variant: the Err of into_shape is answered with an empty list
MutDecodeTolerant(ov, anchors, n_fg_class, thresh) ==
    IF into_shape_ok(ov, Len(anchors), n_fg_class)
    THEN [panic |-> FALSE, bbox |-> decode_loops(ov, anchors, n_fg_class, thresh)]
    ELSE [panic |-> FALSE, bbox |-> <<>>]

\* decode: the unwrap of into_shape panics on Err
decode(ov, anchors, n_fg_class, thresh) ==
    IF into_shape_ok(ov, Len(anchors), n_fg_class)
    THEN [panic |-> FALSE, bbox |-> decode_loops(ov, anchors, n_fg_class, thresh)]
    ELSE [panic |-> TRUE, bbox |-> <<>>]

-----------------------------------------------------------------------------
(* set_image *)

\* the padding value 0.5 and a normalised pixel p / 255, in units of 1/510
Pad == 255
Norm(p) == 2 * p

\* img.get_pixel(x, y).data[c] of an image
Pixel(im, x, y, c) == (im.seed + 40 * x + 90 * y + 7 * c) % 256

\* the f32 quotient n / d as a fraction; <<0, 0>> is NaN, <<n, 0>> infinite
Ratio(n, d) == <<n, d>>

\* partial_cmp::min (module partial_cmp is not among the sources): the smaller
\* of two comparable values, None when they are incomparable
partial_cmp_min(a, b) ==
    IF a = <<0, 0>> \/ b = <<0, 0>> THEN "None"
    ELSE IF a[1] * b[2] <= b[1] * a[2] THEN a ELSE b

Indices(sh) == (0..(sh[1] - 1)) \X (0..(sh[2] - 1)) \X (0..(sh[3] - 1))

\* variant: the whole remainder put in front
MutOffsetWhole(m, n) == m - n

\* the padding in front of a resized extent n inside a tensor extent m
Offset(m, n) == (m - n) \div 2

\* the check of line 78
ChannelsOk(iv) == iv.shape[1] = 3

(* set_image on the view iv, the image im and its resized copy rim.  The   *)
(* first write of the loop is out of bounds (an underflow of in_h - h in a *)
(* debug build, an index beyond the tensor in a release build) when the    *)
(* resized image exceeds the tensor, so nothing is written before the      *)
(* panic.                                                                  *)
set_image(iv, im, rim) ==
    IF ~ChannelsOk(iv)
    THEN [panic |-> TRUE, in_ |-> iv, scale |-> <<0, 0>>]
    ELSE
      LET in_h == iv.shape[2]
          in_w == iv.shape[3]
          sc == partial_cmp_min(Ratio(in_h, im.height), Ratio(in_w, im.width))
          h == rim.height
          w == rim.width
          filled == [iv EXCEPT !.data = [ix \in Indices(iv.shape) |-> Pad]]
          written(ix) ==
              \E y \in 0..(h - 1), x \in 0..(w - 1) :
                  ix[2] = y + Offset(in_h, h) /\ ix[3] = x + Offset(in_w, w)
      IN  IF sc = "None"
          THEN [panic |-> TRUE, in_ |-> iv, scale |-> <<0, 0>>]
          ELSE IF h > 0 /\ w > 0 /\ (h > in_h \/ w > in_w)
          THEN [panic |-> TRUE, in_ |-> filled, scale |-> sc]
          ELSE [panic |-> FALSE,
                in_ |-> [iv EXCEPT !.data = [ix \in Indices(iv.shape) |->
                            IF written(ix)
                            THEN Norm(Pixel(rim, ix[3] - Offset(in_w, w),
                                                 ix[2] - Offset(in_h, h), ix[1]))
                            ELSE Pad]],
                scale |-> sc]

-----------------------------------------------------------------------------
(* The inputs of the model *)

\* the anchors of a configuration are a prefix of this list, (height, width)
AnchorList == <<<<5, 10>>, <<10, 5>>>>
AnchorCounts == 1..Len(AnchorList)
ClassCounts == 1..2
Anchors(n) == SubSeq(AnchorList, 1, n)

Configs(sizes) ==
    { [insize |-> s, anchors |-> Anchors(a), n_classes |-> c] :
        s \in sizes, a \in AnchorCounts, c \in ClassCounts }

NoConfig == [insize |-> 0, anchors |-> <<>>, n_classes |-> 0]

PixelSeeds == {0, 200}
Images(seeds) ==
    { [height |-> h, width |-> w, seed |-> sd] :
        h \in 1..MaxSide, w \in 1..MaxSide, sd \in seeds }
NoImage == [height |-> 0, width |-> 0, seed |-> 0]

\* img.resize(nwidth, nheight, Nearest) of the image library keeps the aspect
\* ratio and fits the bounds; any size within the bounds is an outcome, and
\* the pixels are pixels of the source
Resized(im, nwidth, nheight) ==
    { [height |-> h, width |-> w, seed |-> im.seed] :
        h \in 0..nheight, w \in 0..nwidth }

\* a tensor of shape sh holding v everywhere, indexed by <<c, y, x>>
Blank(sh, v) == [shape |-> sh, data |-> [ix \in Indices(sh) |-> v]]
NoTensor == Blank(<<0, 0, 0>>, 0)

\* the output tensors an engine may leave: shape sh, row major, the
\* activations following the pattern (seed, stride)
Patterns == (0..3) \X (0..3)
Filled(sh, pt) ==
    [shape |-> sh,
     data |-> [i \in 0..(Size(sh) - 1) |-> Acts[((pt[1] + pt[2] * i) % 4) + 1]]]

\* the sides of the square output grid of the model predict runs
GridSides == {0, 1}

\* the channel depths an output tensor may have
Depths == { a * (4 + 1 + c) : a \in AnchorCounts, c \in ClassCounts }

\* the thresholds of predict (lines 61 and 63), in hundredths
DecodeThresh == 50
SuppressThresh == 45

\* the thresholds tried when decode and suppress are called alone
DecodeThreshs == {25, 50}
SuppressThreshs == {45, 55}

\* the boxes handed to suppress when it is called alone: three rectangles
\* with IoU(1,2) = 0.6, IoU(1,3) = 0.5 and IoU(2,3) = 0.1, under two labels
RectA == <<0, 100>>
RectB == <<0, 60>>
RectC == <<50, 100>>
Scores == {NaN, 70, 80, 90}
Boxes ==
    { Bb(0, r[1], 100, r[2], 0, sc) : r \in {RectA, RectB, RectC}, sc \in Scores }
    \cup { Bb(0, r[1], 100, r[2], 1, sc) : r \in {RectA, RectB}, sc \in {NaN, 90} }
BoxLists == UNION { [1..n -> Boxes] : n \in 0..MaxLen }

-----------------------------------------------------------------------------
(* predict, one action per stage *)

Stages == <<"set_image", "run", "decode", "suppress", "map">>

TypeOK ==
    /\ fn \in {"predict", "set_image", "decode", "suppress"}
    /\ result \in {"none", "ok", "err", "panic"}
    /\ failed_at \in {"none", "get_view_mut", "run", "get_view"}

\* the model built by from_onnx (line 39) has the input [1, 3, insize, insize];
\* the output's shape is the network's, a square grid of any channel depth
Init ==
    /\ fn = "predict"
    /\ pc = "get_view_mut"
    /\ config \in Configs(1..MaxSide)
    /\ img \in Images({0})
    /\ rimg = NoImage
    /\ in_ = Blank(<<3, config.insize, config.insize>>, 0)
    /\ \E d \in Depths, g \in GridSides : out = Filled(<<d, g, g>>, <<1, 0>>)
    /\ scale = <<0, 0>>
    /\ dec_thresh = DecodeThresh
    /\ nms_thresh = SuppressThresh
    /\ bbox = <<>>
    /\ cand = <<>>
    /\ sorted = <<>>
    /\ kept = {}
    /\ trace = <<>>
    /\ failed_at = "none"
    /\ result = "none"

\* `?` on an engine error: predict returns Err at once
Fail(at) ==
    /\ failed_at' = at
    /\ result' = "err"
    /\ pc' = "done"

Panic ==
    /\ result' = "panic"
    /\ pc' = "done"

\* self.model.get_view_mut(&self.config.input)?
GetViewMut ==
    /\ fn = "predict" /\ pc = "get_view_mut"
    /\ \/ Fail("get_view_mut")
       \/ pc' = "set_image" /\ UNCHANGED <<failed_at, result>>
    /\ UNCHANGED <<fn, config, img, rimg, in_, out, scale, dec_thresh, nms_thresh,
                   bbox, cand, sorted, kept, trace>>

\* the state change of a call of set_image, then: pc
DoSetImage(next) ==
    \E rim \in Resized(img, in_.shape[2], in_.shape[3]) :
        LET r == set_image(in_, img, rim)
        IN  /\ rimg' = rim
            /\ in_' = r.in_
            /\ scale' = r.scale
            /\ IF r.panic THEN Panic ELSE pc' = next /\ result' = result

SetImage ==
    /\ fn = "predict" /\ pc = "set_image"
    /\ DoSetImage("run")
    /\ trace' = Append(trace, "set_image")
    /\ UNCHANGED <<fn, config, img, out, dec_thresh, nms_thresh,
                   bbox, cand, sorted, kept, failed_at>>

\* variant: the error of run does not end predict
MutRunErrorIgnored ==
    /\ fn = "predict" /\ pc = "run"
    /\ \/ failed_at' = "run" /\ result' = "err" /\ pc' = "get_view" /\ out' = out
       \/ /\ \E pt \in Patterns : out' = Filled(out.shape, pt)
          /\ pc' = "get_view"
          /\ UNCHANGED <<failed_at, result>>
    /\ trace' = Append(trace, "run")
    /\ UNCHANGED <<fn, config, img, rimg, in_, scale, dec_thresh, nms_thresh,
                   bbox, cand, sorted, kept>>

\* self.model.run()?: on success the engine has filled the output tensor
Run ==
    /\ fn = "predict" /\ pc = "run"
    /\ \/ Fail("run") /\ out' = out
       \/ /\ \E pt \in Patterns : out' = Filled(out.shape, pt)
          /\ pc' = "get_view"
          /\ UNCHANGED <<failed_at, result>>
    /\ trace' = Append(trace, "run")
    /\ UNCHANGED <<fn, config, img, rimg, in_, scale, dec_thresh, nms_thresh,
                   bbox, cand, sorted, kept>>

\* self.model.get_view(&self.config.output)?
GetView ==
    /\ fn = "predict" /\ pc = "get_view"
    /\ \/ Fail("get_view")
       \/ pc' = "decode" /\ UNCHANGED <<failed_at, result>>
    /\ UNCHANGED <<fn, config, img, rimg, in_, out, scale, dec_thresh, nms_thresh,
                   bbox, cand, sorted, kept, trace>>

\* the state change of a call of decode with threshold t, then: pc
DoDecode(t, next) ==
    LET r == decode(out, config.anchors, config.n_classes, t)
    IN  /\ dec_thresh' = t
        /\ bbox' = r.bbox
        /\ IF r.panic THEN Panic ELSE pc' = next /\ result' = result

Decode ==
    /\ fn = "predict" /\ pc = "decode"
    /\ DoDecode(DecodeThresh, "suppress")
    /\ trace' = Append(trace, "decode")
    /\ UNCHANGED <<fn, config, img, rimg, in_, out, scale, nms_thresh,
                   cand, sorted, kept, failed_at>>

\* the state change of a call of suppress with threshold t, then: pc
DoSuppress(t, next) ==
    \E st \in SortOutcomes(bbox) :
        LET r == suppress(st, t)
        IN  /\ nms_thresh' = t
            /\ cand' = bbox
            /\ sorted' = st
            /\ kept' = r.kept
            /\ bbox' = r.bbox
            /\ pc' = next

Suppress ==
    /\ fn = "predict" /\ pc = "suppress"
    /\ DoSuppress(SuppressThresh, "map")
    /\ trace' = Append(trace, "suppress")
    /\ UNCHANGED <<fn, config, img, rimg, in_, out, scale, dec_thresh,
                   failed_at, result>>

\* (v - 0.5) * scale + dim / 2. with scale = insize / (the scale of set_image)
MapCoord(v, insize, sc, dim) ==
    ((v - 50) * (insize * sc[2])) \div sc[1] + (dim * 100) \div 2

InverseMapBox(b, insize, sc, im) ==
    [b EXCEPT !.top = MapCoord(b.top, insize, sc, im.height),
              !.left = MapCoord(b.left, insize, sc, im.width),
              !.bottom = MapCoord(b.bottom, insize, sc, im.height),
              !.right = MapCoord(b.right, insize, sc, im.width)]

\* lines 65-73: the inverse mapping, then Ok(bbox)
InverseMap ==
    /\ fn = "predict" /\ pc = "map"
    /\ bbox' = [i \in 1..Len(bbox) |-> InverseMapBox(bbox[i], config.insize, scale, img)]
    /\ result' = "ok"
    /\ pc' = "done"
    /\ trace' = Append(trace, "map")
    /\ UNCHANGED <<fn, config, img, rimg, in_, out, scale, dec_thresh, nms_thresh,
                   cand, sorted, kept, failed_at>>

Next == GetViewMut \/ SetImage \/ Run \/ GetView \/ Decode \/ Suppress \/ InverseMap

Spec == Init /\ [][Next]_vars

-----------------------------------------------------------------------------
(* set_image, decode and suppress called alone, on any arguments *)

InitSetImage ==
    /\ fn = "set_image"
    /\ img \in Images(PixelSeeds)
    /\ \E c \in {2, 3, 4}, h \in 1..MaxSide, w \in 1..MaxSide :
           in_ = Blank(<<c, h, w>>, 0)
    /\ config = NoConfig
    /\ out = NoTensor
    /\ bbox = <<>>

InitDecode ==
    /\ fn = "decode"
    /\ config \in Configs({0})
    /\ \E d \in Depths, h \in 0..MaxGrid, w \in 0..MaxGrid, pt \in Patterns :
           out = Filled(<<d, h, w>>, pt)
    /\ img = NoImage
    /\ in_ = NoTensor
    /\ bbox = <<>>

InitSuppress ==
    /\ fn = "suppress"
    /\ bbox \in BoxLists
    /\ config = NoConfig
    /\ img = NoImage
    /\ in_ = NoTensor
    /\ out = NoTensor

InitUnits ==
    /\ InitSetImage \/ InitDecode \/ InitSuppress
    /\ pc = "call"
    /\ rimg = NoImage
    /\ scale = <<0, 0>>
    /\ dec_thresh = DecodeThresh
    /\ nms_thresh = SuppressThresh
    /\ cand = <<>>
    /\ sorted = <<>>
    /\ kept = {}
    /\ trace = <<>>
    /\ failed_at = "none"
    /\ result = "none"

CallSetImage ==
    /\ fn = "set_image" /\ pc = "call"
    /\ DoSetImage("returned")
    /\ UNCHANGED <<fn, config, img, out, dec_thresh, nms_thresh,
                   bbox, cand, sorted, kept, trace, failed_at>>

CallDecode ==
    /\ fn = "decode" /\ pc = "call"
    /\ \E t \in DecodeThreshs : DoDecode(t, "returned")
    /\ UNCHANGED <<fn, config, img, rimg, in_, out, scale, nms_thresh,
                   cand, sorted, kept, trace, failed_at>>

CallSuppress ==
    /\ fn = "suppress" /\ pc = "call"
    /\ \E t \in SuppressThreshs : DoSuppress(t, "returned")
    /\ UNCHANGED <<fn, config, img, rimg, in_, out, scale, dec_thresh,
                   trace, failed_at, result>>

NextUnits == CallSetImage \/ CallDecode \/ CallSuppress

SpecUnits == InitUnits /\ [][NextUnits]_vars

-----------------------------------------------------------------------------
(* Properties of predict *)

Range(q) == { q[i] : i \in 1..Len(q) }

IsPrefix(p, q) == Len(p) <= Len(q) /\ \A i \in 1..Len(p) : p[i] = q[i]

\* the output tensor cannot be reshaped to (anchors, 5 + classes, out_h, out_w)
ReshapeFails ==
    Len(config.anchors) * (5 + config.n_classes) * out.shape[2] * out.shape[3]
        # out.shape[1] * out.shape[2] * out.shape[3]

\* the channel depth of the output tensor is not anchors.len() * (5 + num_classes)
DepthMismatch == out.shape[1] # Len(config.anchors) * (5 + config.n_classes)

(* C1, as stated: a call of predict ends with Ok or with Err carrying the  *)
(* engine's error, and in no other way (no panic).                         *)
C1_OkOrErrOnly == pc = "done" => result \in {"ok", "err"}

(* C1, amended: predict ends with Ok, with Err carrying the engine's error *)
(* or with a panic; on a model built by from_onnx and an image of non-zero *)
(* size it panics exactly when decode is reached and the output tensor     *)
(* cannot be reshaped, and it returns Err exactly when an engine call      *)
(* failed.                                                                 *)
C1_OkErrOrPanic ==
    /\ pc = "done" => result \in {"ok", "err", "panic"}
    /\ pc # "done" => result = "none"
    /\ result = "panic" => "decode" \in Range(trace) /\ ReshapeFails
    /\ result = "ok" => ~ReshapeFails
    /\ result = "err" <=> failed_at # "none"

C1_Witness == result = "panic" /\ DepthMismatch /\ Len(trace) = 3

(* C2: the stages of predict happen in the order set_image, run, decode,   *)
(* suppress, inverse mapping; decode is not reached unless run succeeded;  *)
(* a failing engine call ends predict at once with Err, no later stage     *)
(* performed and no box produced.                                          *)
C2_StageOrder ==
    /\ IsPrefix(trace, Stages)
    /\ "decode" \in Range(trace) => failed_at = "none"
    /\ failed_at # "none" => pc = "done" /\ result = "err" /\ bbox = <<>>
    /\ failed_at = "get_view_mut" => trace = <<>> /\ in_ = Blank(in_.shape, 0)
    /\ failed_at \in {"run", "get_view"} => trace = <<"set_image", "run">>
    /\ failed_at = "run" => out = Filled(out.shape, <<1, 0>>)
    /\ result = "ok" => trace = Stages

C2_Witness ==
    /\ failed_at = "run"
    /\ \E ix \in DOMAIN in_.data : in_.data[ix] # 0

-----------------------------------------------------------------------------
(* Properties of suppress *)

Returned(f) == fn = f /\ pc # "call"

BoxA(sc) == Bb(0, RectA[1], 100, RectA[2], 0, sc)
BoxB(sc) == Bb(0, RectB[1], 100, RectB[2], 0, sc)
BoxC(sc) == Bb(0, RectC[1], 100, RectC[2], 0, sc)

\* the three boxes of the example: A (0.9), B (0.8), C (0.7), threshold 0.45
IsExample ==
    /\ Returned("suppress")
    /\ nms_thresh = 45
    /\ sorted = <<BoxA(90), BoxB(80), BoxC(70)>>

(* C3, as stated: the box at sorted position i > 1 is dropped if and only  *)
(* if it has the label of the box at sorted position i - 1, dropped or     *)
(* not, and their IoU exceeds the threshold; the example keeps {A, C}.     *)
C3_AdjacentPair ==
    Returned("suppress") =>
        /\ \A i \in 2..Len(sorted) :
               i \notin kept <=>
                   /\ sorted[i].label = sorted[i - 1].label
                   /\ Exceeds(iou(sorted[i], sorted[i - 1]), nms_thresh)
        /\ IsExample => bbox = <<BoxA(90), BoxC(70)>>

\* the last position before i that was retained
LastKept(i) == CHOOSE j \in kept : j < i /\ \A k \in kept : k < i => k <= j

(* C3, amended: the first box in sorted order is kept; the box at sorted   *)
(* position i > 1 is dropped if and only if it has the label of the last   *)
(* box kept before it and their IoU exceeds the threshold; the example     *)
(* keeps {A} only, C being compared with A.                                *)
C3_LastKeptPair ==
    Returned("suppress") =>
        /\ Len(sorted) > 0 => 1 \in kept
        /\ \A i \in 2..Len(sorted) :
               i \notin kept <=>
                   /\ sorted[i].label = sorted[LastKept(i)].label
                   /\ Exceeds(iou(sorted[i], sorted[LastKept(i)]), nms_thresh)
        /\ bbox = Pick(sorted, kept, 1)
        /\ IsExample => bbox = <<BoxA(90)>>

C3_Witness == IsExample /\ Len(cand) = 3 /\ Len(bbox) = 1

NoNaN(q) == \A i \in 1..Len(q) : q[i].score # NaN

(* C4: when every score is comparable, suppress keeps for every label of   *)
(* the input a box of that label with the greatest score of that label;    *)
(* of two boxes of one label with an IoU above the threshold exactly one   *)
(* survives, a higher-scoring one.                                         *)
C4_BestOfLabelKept ==
    Returned("suppress") /\ NoNaN(cand) =>
        /\ \A i \in 1..Len(cand) :
               \E k \in 1..Len(bbox) :
                   /\ bbox[k].label = cand[i].label
                   /\ \A j \in 1..Len(cand) :
                          cand[j].label = cand[i].label => cand[j].score <= bbox[k].score
        /\ (/\ Len(cand) = 2
            /\ cand[1].label = cand[2].label
            /\ Exceeds(iou(cand[1], cand[2]), nms_thresh))
           => /\ Len(bbox) = 1
              /\ bbox[1] \in Range(cand)
              /\ bbox[1].score = Max(cand[1].score, cand[2].score)

C4_Witness ==
    /\ Returned("suppress")
    /\ cand = <<BoxB(80), BoxA(90)>>
    /\ bbox = <<BoxA(90)>>

(* C5: a box whose label no other box of the input has always survives; an *)
(* input of pairwise distinct labels comes back whole, ordered by label.   *)
C5_OtherLabelsNeverSuppress ==
    Returned("suppress") =>
        /\ \A i \in 1..Len(cand) :
               (\A j \in 1..Len(cand) : j # i => cand[j].label # cand[i].label)
                   => cand[i] \in Range(bbox)
        /\ (\A i, j \in 1..Len(cand) : i # j => cand[i].label # cand[j].label)
               => /\ Len(bbox) = Len(cand)
                  /\ Range(bbox) = Range(cand)
                  /\ \A i, j \in 1..Len(bbox) : i < j => bbox[i].label < bbox[j].label

C5_Witness ==
    /\ Returned("suppress")
    /\ cand = <<Bb(0, 0, 100, 100, 1, 90), BoxA(90)>>
    /\ bbox = <<BoxA(90), Bb(0, 0, 100, 100, 1, 90)>>

\* q with x put after every element that does not compare Greater than x
RECURSIVE StableInsert(_, _)
StableInsert(q, x) ==
    IF q = <<>> THEN <<x>>
    ELSE IF BbCmp(x, q[Len(q)]) = "Less"
         THEN Append(StableInsert(SubSeq(q, 1, Len(q) - 1), x), q[Len(q)])
         ELSE Append(q, x)

\* the stable sort of q by (label ascending, score descending)
RECURSIVE StableSort(_)
StableSort(q) ==
    IF q = <<>> THEN <<>>
    ELSE StableInsert(StableSort(SubSeq(q, 1, Len(q) - 1)), q[Len(q)])

IsSubseq(p, q) == \E K \in SUBSET (1..Len(q)) : p = Pick(q, K, 1)

(* C6, as stated: the list left by suppress is a subsequence of the stable *)
(* sort of the input by (label ascending, score descending), so boxes of   *)
(* one label with equal or incomparable scores keep their input order.     *)
C6_StableOrder == Returned("suppress") => IsSubseq(bbox, StableSort(cand))

\* the number of occurrences of b in q
Count(q, b) == Cardinality({ i \in 1..Len(q) : q[i] = b })

(* C6, amended: the list left by suppress is a sub-list of the input       *)
(* ordered by label ascending and, within a label whose scores are all     *)
(* comparable, by score descending; the sort is unstable, so boxes of one  *)
(* label with equal scores may come out in either order, and the order     *)
(* within a label that has a NaN score is unspecified.                     *)
C6_SortedOrder ==
    Returned("suppress") =>
        /\ \A b \in Range(bbox) : Count(bbox, b) <= Count(cand, b)
        /\ \A i, j \in 1..Len(bbox) : i < j =>
               /\ bbox[i].label <= bbox[j].label
               /\ (bbox[i].label = bbox[j].label /\ ~LabelHasNaN(cand, bbox[i].label))
                      => bbox[i].score >= bbox[j].score

C6_Witness ==
    /\ Returned("suppress")
    /\ cand = <<BoxB(90), BoxC(90)>>
    /\ bbox = <<BoxC(90), BoxB(90)>>

(* C10: in the list left by suppress no box has the label of the box just  *)
(* before it and an IoU with it above the threshold; survivors that are    *)
(* not neighbours may do so, as in C10_Witness.                            *)
C10_NoOverlappingNeighbours ==
    Returned("suppress") =>
        \A i \in 1..(Len(bbox) - 1) :
            ~(/\ bbox[i + 1].label = bbox[i].label
              /\ Exceeds(iou(bbox[i + 1], bbox[i]), nms_thresh))

C10_Witness ==
    /\ Returned("suppress")
    /\ Len(bbox) = 3
    /\ bbox[3].label = bbox[1].label
    /\ Exceeds(iou(bbox[3], bbox[1]), nms_thresh)

-----------------------------------------------------------------------------
(* Properties of decode *)

\* the tuples (y, x, a, lb) of the reshaped output tensor
Tuples ==
    (0..(out.shape[2] - 1)) \X (0..(out.shape[3] - 1))
        \X (0..(Len(config.anchors) - 1)) \X (0..(config.n_classes - 1))

ScoreOf(t) == ScaledScore(out, config.n_classes, t[1], t[2], t[3], t[4])

\* the tuples whose scaled score reaches the threshold
Emitting == { t \in Tuples : ScoreOf(t) >= dec_thresh }

LexLess(t, u) ==
    \E k \in 1..4 : t[k] < u[k] /\ \A m \in 1..(k - 1) : t[m] = u[m]

\* the position of an emitting tuple among the emitting tuples, in (y, x, a, lb) order
Rank(t) == Cardinality({ u \in Emitting : LexLess(u, t) }) + 1

(* C7: decode emits one box for each tuple (y, x, a, lb) whose scaled      *)
(* score is >= thresh and none for any other tuple; the box has label lb,  *)
(* in [0, num_classes), and that score; the boxes are in (y, x, a, lb)     *)
(* lexicographic order.                                                    *)
C7_OneBoxPerClearingTuple ==
    (Returned("decode") /\ result # "panic") =>
        /\ Len(bbox) = Cardinality(Emitting)
        /\ \A t \in Emitting :
               /\ bbox[Rank(t)].label = t[4]
               /\ bbox[Rank(t)].label \in 0..(config.n_classes - 1)
               /\ bbox[Rank(t)].score = ScoreOf(t)
               /\ bbox[Rank(t)] = BoxAt(out, config.anchors, config.n_classes,
                                        t[1], t[2], t[3], t[4])

\* a score equal to the threshold emitted, an anchor of a cell emitting two
\* boxes, another tuple emitting none, more than one column and row
C7_Witness ==
    /\ Returned("decode") /\ result # "panic"
    /\ out.shape[2] > 1 /\ out.shape[3] > 1
    /\ \E t \in Emitting : ScoreOf(t) = dec_thresh
    /\ \E t, u \in Emitting : t[4] # u[4] /\ \A k \in 1..3 : t[k] = u[k]
    /\ Emitting # Tuples
    /\ \E t, u \in Emitting : t[1] # u[1] /\ t[2] # u[2]

-----------------------------------------------------------------------------
(* Properties of set_image and of the preconditions *)

(* C8: a violated precondition fails fast: with a channel count other than *)
(* 3 set_image panics before it writes any element of the tensor; with a   *)
(* channel depth other than anchors.len() * (5 + num_classes) decode       *)
(* panics and produces no box, whatever the grid, an empty grid included.  *)
C8_PreconditionsFailFast ==
    /\ (Returned("set_image") /\ in_.shape[1] # 3)
           => result = "panic" /\ in_ = Blank(in_.shape, 0)
    /\ (Returned("decode") /\ DepthMismatch)
           => result = "panic" /\ bbox = <<>>

\* the side of a square input tensor that the resized image fits
SquareFit ==
    /\ Returned("set_image")
    /\ in_.shape[1] = 3
    /\ in_.shape[2] = in_.shape[3]
    /\ rimg.height <= in_.shape[2]
    /\ rimg.width <= in_.shape[3]

(* C9: for a square input tensor of side S and a resized image of h x w    *)
(* pixels, h <= S and w <= S, set_image writes pixel (y, x) of each        *)
(* channel at (y + floor((S-h)/2), x + floor((S-w)/2)), inside the tensor; *)
(* every other element holds the padding 0.5; the padding in front equals  *)
(* the padding behind or is one less; with h = w = S no padding is left.   *)
C9_Letterbox ==
    SquareFit =>
        LET S == in_.shape[2]
            h == rimg.height
            w == rimg.width
            top == (S - h) \div 2
            left == (S - w) \div 2
            Inside == { <<c, y + top, x + left>> :
                          c \in 0..2, y \in 0..(h - 1), x \in 0..(w - 1) }
        IN  /\ result = "none"
            /\ Inside \subseteq DOMAIN in_.data
            /\ \A c \in 0..2, y \in 0..(h - 1), x \in 0..(w - 1) :
                   in_.data[<<c, y + top, x + left>>] = 2 * Pixel(rimg, x, y, c)
            /\ \A ix \in (DOMAIN in_.data) \ Inside : in_.data[ix] = 255
            /\ top \in {S - h - top, S - h - top - 1}
            /\ left \in {S - w - left, S - w - left - 1}
            /\ (h = S /\ w = S) => \A ix \in DOMAIN in_.data : in_.data[ix] # 255

\* a row of padding above and below, a column behind and none in front
C9_Witness ==
    /\ SquareFit
    /\ in_.shape[2] = 3
    /\ rimg.height = 1
    /\ rimg.width = 2
    /\ in_.data[<<2, 1, 1>>] = 2 * Pixel(rimg, 1, 0, 2)
    /\ in_.data[<<2, 0, 0>>] = 255

=============================================================================
